---- MODULE Spec2Model ----
(***************************************************************************)
(* The interactive EER diagram of SQL_Editor.py                            *)
(* (HRMSQueryGUI._show_interactive_eer and class TableNode): the table     *)
(* nodes and foreign-key edges built from a schema snapshot, the layout    *)
(* button, node dragging, canvas panning and zooming.                      *)
(*                                                                         *)
(* Coordinates are whole pixels, in exact integer arithmetic.  The code    *)
(* computes them in Python numbers: int for everything that comes from     *)
(* build, grid and pointer events, binary64 for the radial layout, whose   *)
(* cos/sin offsets are rounded to the nearest pixel here.  The zoom        *)
(* factor is kept in thousandths (1000 = 1.0).                             *)
(***************************************************************************)
EXTENDS Integers, Sequences, FiniteSets, TLC

VARIABLES
    schema,         \* the snapshot handed to _show_interactive_eer: <<[name, cols]>>
    fk_list,        \* what _get_foreign_keys returns: <<[table, col, ref_table, ref_col]>>
    win,            \* "closed" | "empty" (no tables found) | "open"
    opens,          \* how many times the diagram window has been opened
    nodes,          \* dict nodes, in insertion order: <<[name, cols, x, y, width, height]>>
    drawn,          \* per node, the canvas coordinates <<x, y>> its box is drawn at
    edges,          \* list edges: <<[from, to, fk, color]>>
    lines,          \* the coordinates of the edges' line items: the start and the
                    \* end point of edge j are lines[2j - 1] and lines[2j]
    current_scale,  \* current_scale["s"], in thousandths
    zoom_var,       \* the slider's DoubleVar, in thousandths
    zooms,          \* how many times the window's canvas has been scaled
    xOrigin,        \* canvas.canvasx(0): the canvas coordinate at the window's left edge
    yOrigin,        \* canvas.canvasy(0)
    scan,           \* the canvas's scan mark: [x, y, xo, yo]
    pan_mode,       \* pan_mode["on"]
    drag_start,     \* per node, (drag_start_x, drag_start_y); <<>> before its first press
    grab,           \* the node whose tag bindings receive button-1 events (0: none)
    b1,             \* whether button 1 is held down
    b2,             \* whether button 2 is held down
    ptr,            \* while a button is held, the window point of its last event
    highlight,      \* per node, whether on_hover_in has highlighted its outline
    quality_var,    \* the Quality box's StringVar
    last_session,   \* history: node positions and scale when the window was last closed
    export_out,     \* what the last handler showed and wrote: [msg, image, factor, ps]
    active_conn,    \* whether self.active_conn is a connection (FALSE: None)
    threads,        \* the query worker threads created so far, each one's place in
                    \* _query_worker: "started", "executing", "finally", "exiting", "dead"
    running_thread, \* self.running_thread: an index of threads, 0 for None
    running_tid,    \* self.running_tid: "tid" or "None"
    after_queue,    \* the callbacks scheduled with self.after(0, ...), oldest first
    scheduled,      \* history: per thread, the callbacks it scheduled, in order
    dialog,         \* the message box or toast the last handler showed ("none")
    query_rows,     \* len(self.query_rows)
    current_page,   \* self.current_page
    _history_data,  \* self._history_data: <<[status, raw, display]>>
    history_list,   \* the lines of the history Listbox
    lastOp,         \* the handler that ran last
    err             \* the exception the last handler raised ("none": it returned)

vars == <<schema, fk_list, win, nodes, drawn, edges, lines, current_scale, zoom_var,
          zooms, xOrigin, yOrigin, scan, pan_mode, drag_start, grab, b1, b2, ptr,
          opens, highlight, quality_var, last_session, export_out, lastOp, err,
          active_conn, threads, running_thread, running_tid, after_queue, scheduled,
          dialog, query_rows, current_page, _history_data, history_list>>

diagram == <<schema, fk_list, win, nodes, drawn, edges, lines>>
zoomst  == <<current_scale, zoom_var, zooms>>
viewst  == <<xOrigin, yOrigin, scan>>
ptrst   == <<pan_mode, drag_start, grab, b1, b2, ptr>>
ctlst   == <<opens, highlight, quality_var, last_session>>
queryst == <<active_conn, threads, running_thread, running_tid, after_queue, scheduled>>
pagest  == <<query_rows, current_page>>
histst  == <<_history_data, history_list>>
appst   == <<queryst, pagest, histst, dialog>>

\* no message box shown, no file written
NoExport == [msg |-> "none", image |-> "none", factor |-> 0, ps |-> FALSE]

(***************************************************************************)
(* Program constants                                                       *)
(***************************************************************************)
BOX_WIDTH  == 220
HEADER_H   == 28
ROW_H      == 20
PAD        == 6
BOTTOM_PAD == 8

GridX0     == 80
GridY0     == 80
GridPitchX == 320
GridPitchY == 220

RadiusPerNode == 40
RadiusMin     == 200
RadiusMax     == 800

\* win.geometry("1400x900"): the size winfo_width/winfo_height report
CanvasWidth  == 1400
CanvasHeight == 900

ScaleOne    == 1000
ScaleMin    == 200
ScaleMax    == 3000
SliderFrom  == 400
SliderTo    == 2400
\* set_zoom ignores a change below 1e-6; no two values of the model are that close
WheelNum    == 11
WheelDen    == 10

colors == <<"#ff5555", "#55aa55", "#5577dd", "#ffaa00", "#bb44cc">>

layout_values == {"grid", "hierarchical", "radial"}

(***************************************************************************)
(* Bounds of the model                                                     *)
(***************************************************************************)
MaxTables == 6      \* tables of a snapshot under SpecLayout
MaxFks    == 2      \* foreign keys of a snapshot under SpecLayout
MaxOpens  == 2      \* times the diagram window is opened
MaxZooms  == 9      \* scalings of one window's canvas
MaxFrameZooms == 2  \* scalings of one window's canvas under SpecFrame

TableNames == <<"users", "orders", "items", "tags", "logs", "roles", "teams", "plans",
                "carts", "notes", "sites", "units", "files", "jobs", "banks", "rates",
                "zones", "forms", "mails", "news", "polls", "taxes">>
AbsentTable == "archived_logs"

Max(a, b) == IF a >= b THEN a ELSE b
Min(a, b) == IF a <= b THEN a ELSE b

\* a table's columns, named by their ordinals
ColumnList(k) == [j \in 1..k |-> j]

(***************************************************************************)
(* class TableNode                                                         *)
(***************************************************************************)
NodeHeight(cols) == HEADER_H + Len(cols) * ROW_H + PAD + BOTTOM_PAD

TableNode(name, cols, x, y) ==
    [name |-> name, cols |-> cols, x |-> x, y |-> y,
     width |-> BOX_WIDTH, height |-> NodeHeight(cols)]

\* move with "self.y = dy" for "self.y += dy"
MutMoveAssignsY(nd, dx, dy) == [nd EXCEPT !.x = @ + dx, !.y = dy]

\* TableNode.move: self.x += dx; self.y += dy
move(nd, dx, dy) == [nd EXCEPT !.x = @ + dx, !.y = @ + dy]

Positions(ns) == [i \in 1..Len(ns) |-> <<ns[i].x, ns[i].y>>]

\* self.canvas.move(self.tag, dx, dy) of every node that move() took from its
\* place in ns to its place in moved: the node's items shift by the same delta
canvas_move(dr, ns, moved) ==
    [i \in 1..Len(dr) |-> <<dr[i][1] + (moved[i].x - ns[i].x),
                            dr[i][2] + (moved[i].y - ns[i].y)>>]

(***************************************************************************)
(* Grid placement: int(count ** 0.5 + 0.5) columns                         *)
(***************************************************************************)
\* int(n ** 0.5 + 0.5): the c with c - 1/2 <= sqrt(n) < c + 1/2
RoundSqrt(n) ==
    IF n = 0 THEN 0
    ELSE CHOOSE c \in 1..n : (2*c - 1) * (2*c - 1) <= 4*n /\ 4*n < (2*c + 1) * (2*c + 1)

\* math.ceil(count ** 0.5) columns for int(count ** 0.5 + 0.5)
MutGridColsCeil(count) == CHOOSE c \in 1..Max(1, count) : (c - 1) * (c - 1) < count /\ count <= c * c

GridCols(count) == Max(1, RoundSqrt(count))

\* the slot of the node with 0-based index i
GridX(i, cols) == GridX0 + (i % cols) * GridPitchX
GridY(i, cols) == GridY0 + (i \div cols) * GridPitchY

(***************************************************************************)
(* Building nodes and edges                                                *)
(***************************************************************************)
NodeNames(ns) == {ns[i].name : i \in 1..Len(ns)}

BuildNodes(sch) ==
    LET cols_grid == GridCols(Len(sch))
    IN  [i \in 1..Len(sch) |->
            TableNode(sch[i].name, sch[i].cols,
                      GridX(i - 1, cols_grid), GridY(i - 1, cols_grid))]

\* the test "rt not in nodes" left out
MutFkKeptSourceOnly(ns, fk) == fk.table \in NodeNames(ns)

\* for i, fk in enumerate(fk_list): skipped unless both tables are nodes
FkKept(ns, fk) == fk.table \in NodeNames(ns) /\ fk.ref_table \in NodeNames(ns)

\* the palette indexed by the edge's place k in the edge list
MutEdgeColorByEdgeIndex(i, k) == colors[((k - 1) % Len(colors)) + 1]

\* color = colors[i % len(colors)], i from enumerate(fk_list): the colour of the
\* edge made from the i-th foreign key, the k-th edge of the list (from 1 here)
edge_color(i, k) == colors[((i - 1) % Len(colors)) + 1]

BuildEdges(ns, fks) ==
    LET idx == SelectSeq([k \in 1..Len(fks) |-> k], LAMBDA k : FkKept(ns, fks[k]))
    IN  [j \in 1..Len(idx) |->
            [from  |-> fks[idx[j]].table,
             to    |-> fks[idx[j]].ref_table,
             fk    |-> fks[idx[j]],
             color |-> edge_color(idx[j], j)]]

\* nodes[e["from"]], nodes[e["to"]]: every edge joins two tables of nodes
\* (FkKept); a name that is no key of nodes stands for a box without columns
\* at the origin
NodeOf(ns, name) ==
    IF \E i \in 1..Len(ns) : ns[i].name = name
    THEN ns[CHOOSE i \in 1..Len(ns) : ns[i].name = name]
    ELSE TableNode(name, <<>>, 0, 0)

\* the anchor at half the height of the header band
MutEdgeAnchorHeaderCentre(nd) == nd.y + HEADER_H \div 2

\* y1 = na.y + TableNode.HEADER_H + TableNode.ROW_H / 2
edge_anchor_y(nd) == nd.y + HEADER_H + ROW_H \div 2

\* _update_edges, and the same arithmetic where the lines are created: x1 =
\* na.x + na.width, x2 = nb.x, for every edge of the list
_update_edges(ns, es) ==
    [k \in 1..(2 * Len(es)) |->
        LET e == es[(k + 1) \div 2]
        IN  IF k % 2 = 1
            THEN <<NodeOf(ns, e.from).x + NodeOf(ns, e.from).width,
                   edge_anchor_y(NodeOf(ns, e.from))>>
            ELSE <<NodeOf(ns, e.to).x, edge_anchor_y(NodeOf(ns, e.to))>>]

(***************************************************************************)
(* Layouts                                                                 *)
(***************************************************************************)
\* round(1000 * cos(2 pi i / total)) and round(1000 * sin(2 pi i / total))
CosMilli(i, total) ==
    CASE i = 0      -> 1000
      [] total = 2  -> -1000
      [] total = 3  -> -500
      [] total = 4  -> <<0, -1000, 0>>[i]
      [] total = 5  -> <<309, -809, -809, 309>>[i]
      [] total = 6  -> <<500, -500, -1000, -500, 500>>[i]
      [] total = 7  -> <<623, -223, -901, -901, -223, 623>>[i]
      [] total = 8  -> <<707, 0, -707, -1000, -707, 0, 707>>[i]
      [] total = 21 -> <<956, 826, 623, 365, 75, -223, -500, -733, -901, -989,
                         -989, -901, -733, -500, -223, 75, 365, 623, 826, 956>>[i]

SinMilli(i, total) ==
    CASE i = 0      -> 0
      [] total = 2  -> 0
      [] total = 3  -> <<866, -866>>[i]
      [] total = 4  -> <<1000, 0, -1000>>[i]
      [] total = 5  -> <<951, 588, -588, -951>>[i]
      [] total = 6  -> <<866, 866, 0, -866, -866>>[i]
      [] total = 7  -> <<782, 975, 434, -434, -975, -782>>[i]
      [] total = 8  -> <<707, 1000, 707, 0, -707, -1000, -707>>[i]
      [] total = 21 -> <<295, 563, 782, 931, 997, 975, 866, 680, 434, 149,
                         -149, -434, -680, -866, -975, -997, -931, -782, -563, -295>>[i]

\* milli * radius / 1000, to the nearest pixel
RoundMilli(v) == (v + 500) \div 1000

\* len(nodes) * 40, not clamped
MutRadiusUnclamped(count) == count * RadiusPerNode

\* radius = max(200, min(800, len(nodes) * 40))
Radius(count) == Max(RadiusMin, Min(RadiusMax, count * RadiusPerNode))

\* nd.move(target_x, target_y) for nd.move(dx, dy)
MutGridLayoutMovesByTarget(ns) ==
    LET cols == GridCols(Len(ns))
    IN  [i \in 1..Len(ns) |-> move(ns[i], GridX(i - 1, cols), GridY(i - 1, cols))]

\* the grid drawn anew with TableNode(canvas, tname, None, x, y)
MutGridLayoutRedrawsNodes(ns) ==
    LET cols == GridCols(Len(ns))
    IN  [i \in 1..Len(ns) |->
            TableNode(ns[i].name, <<>>, GridX(i - 1, cols), GridY(i - 1, cols))]

GridLayout(ns) ==
    LET cols == GridCols(Len(ns))
    IN  [i \in 1..Len(ns) |->
            move(ns[i], GridX(i - 1, cols) - ns[i].x, GridY(i - 1, cols) - ns[i].y)]

\* the circle centred on the nodes' first node instead of the viewport
MutRadialLayoutAroundFirstNode(ns, xo, yo) ==
    LET total  == Len(ns)
        radius == Radius(total)
    IN  [i \in 1..Len(ns) |->
            LET target_x == ns[1].x + RoundMilli(CosMilli(i - 1, total) * radius)
                target_y == ns[1].y + RoundMilli(SinMilli(i - 1, total) * radius)
            IN  move(ns[i], target_x - ns[i].x, target_y - ns[i].y)]

RadialLayout(ns, xo, yo) ==
    LET center_x == xo + CanvasWidth \div 2
        center_y == yo + CanvasHeight \div 2
        total    == Len(ns)
        radius   == Radius(total)
    IN  [i \in 1..Len(ns) |->
            LET target_x == center_x + RoundMilli(CosMilli(i - 1, total) * radius)
                target_y == center_y + RoundMilli(SinMilli(i - 1, total) * radius)
            IN  move(ns[i], target_x - ns[i].x, target_y - ns[i].y)]

\* apply_layout's if/elif: no branch for any other mode
LayoutResult(mode, ns, xo, yo) ==
    CASE mode = "grid"   -> GridLayout(ns)
      [] mode = "radial" -> RadialLayout(ns, xo, yo)
      [] OTHER           -> ns

\* The "Apply Layout" button: apply_layout(layout_var.get()).  The button is
\* clicked with the pointer, so no pointer button is held down over the canvas.
\* In the window of a snapshot without tables _show_interactive_eer returned
\* before "def apply_layout" ran, and the button's lambda finds the name unbound.
ApplyLayout(mode) ==
    /\ win \in {"open", "empty"}
    /\ ~b1
    /\ ~b2
    /\ IF win = "empty"
       THEN /\ UNCHANGED <<nodes, drawn, lines>>
            /\ err' = "NameError"
       ELSE /\ nodes' = LayoutResult(mode, nodes, xOrigin, yOrigin)
            /\ drawn' = canvas_move(drawn, nodes, nodes')
            /\ lines' = _update_edges(nodes', edges)
            /\ err' = "none"
    /\ lastOp' = mode
    /\ export_out' = NoExport
    /\ UNCHANGED ctlst
    /\ UNCHANGED <<schema, fk_list, win, edges, zoomst, viewst, ptrst>>
    /\ UNCHANGED appst

(***************************************************************************)
(* Opening the diagram                                                     *)
(***************************************************************************)
\* the test for an empty snapshot left out
MutNoTablesNever(sch) == FALSE

\* tables = list(schema.keys()); if not tables: the "No tables found" text is
\* drawn and the function returns
no_tables(sch) == Len(sch) = 0

\* the scale the closed window had is kept
MutInitialScaleSurvives(s) == s

\* current_scale = {"s": 1.0}: a new closure variable for every window, whatever
\* the scale s of an earlier window was
initial_scale(s) == ScaleOne

\* _show_interactive_eer(self, schema): gv_positions is None at its only call
ShowInteractiveEer ==
    /\ win = "closed"
    /\ opens < MaxOpens
    /\ opens' = opens + 1
    /\ IF no_tables(schema)
       THEN /\ win' = "empty"
            /\ nodes' = <<>>
            /\ drawn' = <<>>
            /\ edges' = <<>>
            /\ lines' = <<>>
       ELSE /\ win' = "open"
            /\ nodes' = BuildNodes(schema)
            /\ drawn' = Positions(BuildNodes(schema))
            /\ edges' = BuildEdges(BuildNodes(schema), fk_list)
            /\ lines' = _update_edges(BuildNodes(schema),
                                      BuildEdges(BuildNodes(schema), fk_list))
    /\ current_scale' = initial_scale(current_scale)
    /\ zoom_var' = ScaleOne
    /\ zooms' = 0
    /\ xOrigin' = 0
    /\ yOrigin' = 0
    /\ scan' = [x |-> 0, y |-> 0, xo |-> 0, yo |-> 0]
    /\ pan_mode' = FALSE
    /\ drag_start' = [i \in 1..Len(schema) |-> <<>>]
    /\ grab' = 0
    /\ b1' = FALSE
    /\ b2' = FALSE
    /\ ptr' = <<>>
    /\ highlight' = [i \in 1..Len(schema) |-> FALSE]
    /\ quality_var' = "High"
    /\ export_out' = NoExport
    /\ lastOp' = "build"
    /\ err' = "none"
    /\ UNCHANGED <<schema, fk_list, last_session>>
    /\ UNCHANGED appst

\* The "Close" button and the window manager's close: win.destroy
Close ==
    /\ win \in {"open", "empty"}
    /\ ~b1 /\ ~b2
    /\ win' = "closed"
    /\ nodes' = <<>>
    /\ drawn' = <<>>
    /\ edges' = <<>>
    /\ lines' = <<>>
    /\ drag_start' = <<>>
    /\ grab' = 0
    /\ UNCHANGED <<b1, b2, ptr>>
    /\ highlight' = <<>>
    /\ export_out' = NoExport
    /\ lastOp' = "close"
    /\ err' = "none"
    /\ last_session' = [pos |-> Positions(nodes), scale |-> current_scale]
    /\ UNCHANGED <<schema, fk_list, zoomst, viewst, pan_mode, opens, quality_var>>
    /\ UNCHANGED appst

(***************************************************************************)
(* SpecLayout: a snapshot of up to MaxTables tables and MaxFks foreign     *)
(* keys is opened, and the layout button is used.                          *)
(***************************************************************************)
Reverse(s) == [i \in 1..Len(s) |-> s[Len(s) + 1 - i]]

\* n tables; table `wide` (0: none) has k columns, the others two
Snapshot(n, wide, k) ==
    [i \in 1..n |-> [name |-> TableNames[i],
                     cols |-> ColumnList(IF i = wide THEN k ELSE 2)]]

WideColumns == {0, 9}

Snapshots(maxn) ==
    LET fwd == {Snapshot(n, w, k) : n \in 0..maxn, w \in 0..1, k \in WideColumns}
    IN  {s \in fwd : Len(s) > 0 \/ s = <<>>} \cup {Reverse(s) : s \in fwd}

FkTables == {TableNames[1], TableNames[2], AbsentTable}

ForeignKeys ==
    {[table |-> t, col |-> 1, ref_table |-> r, ref_col |-> 1] : t \in FkTables, r \in FkTables}

SeqsUpTo(S, n) == UNION {[1..k -> S] : k \in 0..n}

NoWindow ==
    /\ win = "closed"
    /\ nodes = <<>>
    /\ drawn = <<>>
    /\ edges = <<>>
    /\ lines = <<>>
    /\ current_scale = ScaleOne
    /\ zoom_var = ScaleOne
    /\ zooms = 0
    /\ xOrigin = 0
    /\ yOrigin = 0
    /\ scan = [x |-> 0, y |-> 0, xo |-> 0, yo |-> 0]
    /\ pan_mode = FALSE
    /\ drag_start = <<>>
    /\ grab = 0
    /\ b1 = FALSE
    /\ b2 = FALSE
    /\ ptr = <<>>
    /\ opens = 0
    /\ last_session = [pos |-> <<>>, scale |-> ScaleOne]
    /\ highlight = <<>>
    /\ quality_var = "High"
    /\ export_out = NoExport
    /\ lastOp = "none"
    /\ err = "none"

\* HRMSQueryGUI.__init__: no connection, no rows, page 1, no thread, no history
AppStart ==
    /\ active_conn = FALSE
    /\ threads = <<>>
    /\ running_thread = 0
    /\ running_tid = "None"
    /\ after_queue = <<>>
    /\ scheduled = <<>>
    /\ dialog = "none"
    /\ query_rows = 0
    /\ current_page = 1
    /\ _history_data = <<>>
    /\ history_list = <<>>

InitLayout ==
    /\ schema \in Snapshots(MaxTables)
    /\ fk_list \in SeqsUpTo(ForeignKeys, MaxFks)
    /\ NoWindow
    /\ AppStart

NextLayout ==
    \/ ShowInteractiveEer
    \/ \E mode \in layout_values : ApplyLayout(mode)

SpecLayout == InitLayout /\ [][NextLayout]_vars

(***************************************************************************)
(* Pointer and key events.  A button-1 press on a node's items runs the    *)
(* node's tag bindings first and the canvas's own bindings after them;     *)
(* while the button is held the canvas keeps its current item, so the      *)
(* motion events go to the node that was pressed.                          *)
(***************************************************************************)
\* canvas.scan_mark(x, y)
scan_mark(p) == [x |-> p[1], y |-> p[2], xo |-> xOrigin, yo |-> yOrigin]

\* canvas.scan_dragto(x, y, gain=1): the view origin it scrolls to
scan_dragto_x(p) == scan.xo - (p[1] - scan.x)
scan_dragto_y(p) == scan.yo - (p[2] - scan.y)

\* a / b to the nearest integer, for b > 0
RoundDiv(a, b) == (2 * a + b) \div (2 * b)

\* canvas.canvasx(x), canvas.canvasy(y) of a window point
canvasxy(p) == <<xOrigin + p[1], yOrigin + p[2]>>

\* the middle of the canvas window
CanvasCentre == <<CanvasWidth \div 2, CanvasHeight \div 2>>

\* the rectangle node i is drawn in: its corner, and its size at the current scale
covers(i, c) ==
    /\ drawn[i][1] <= c[1]
    /\ c[1] <= drawn[i][1] + RoundDiv(nodes[i].width * current_scale, ScaleOne)
    /\ drawn[i][2] <= c[2]
    /\ c[2] <= drawn[i][2] + RoundDiv(nodes[i].height * current_scale, ScaleOne)

\* the canvas's current item at canvas point c: the node drawn there (0: none),
\* the one created last if several are.  The foreign-key lines and labels,
\* which lie above the nodes, are taken not to be under the pointer.
Hit(c) ==
    LET over == {i \in 1..Len(nodes) : covers(i, c)}
    IN  IF over = {} THEN 0 ELSE CHOOSE i \in over : \A j \in over : j <= i

\* the window points pointer events are drawn from
PointerPoints == {<<100, 100>>, <<140, 320>>}

\* how far the model follows a dragged node and the panned view
MaxX   == 1000
MaxY   == 600
MaxPan == 220
InReach(nd) == 0 <= nd.x /\ nd.x <= MaxX /\ 0 <= nd.y /\ nd.y <= MaxY
PanInReach(v) == -MaxPan <= v /\ v <= MaxPan

\* the test of pan_mode["on"] left out
MutPanMarkAlways(p) == scan_mark(p)

\* pan_if_space_mark: the scan mark after it
pan_if_space_mark(p) == IF pan_mode THEN scan_mark(p) ELSE scan

\* <ButtonPress-1> at window point p: TableNode.start_drag of the node under the
\* pointer, if there is one, then pan_if_space_mark
ButtonPress1(p) ==
    /\ win = "open"
    /\ ~b1 /\ ~b2
    /\ b1' = TRUE
    /\ ptr' = p
    /\ grab' = Hit(canvasxy(p))
    /\ drag_start' = IF grab' = 0 THEN drag_start ELSE [drag_start EXCEPT ![grab'] = p]
    /\ scan' = pan_if_space_mark(p)
    /\ lastOp' = "press"
    /\ export_out' = NoExport
    /\ UNCHANGED ctlst
    /\ err' = "none"
    /\ UNCHANGED <<diagram, zoomst, xOrigin, yOrigin, pan_mode, b2>>
    /\ UNCHANGED appst

\* TableNode.on_drag(event) of node i
on_drag(ns, i, p) ==
    [ns EXCEPT ![i] = move(@, p[1] - drag_start[i][1], p[2] - drag_start[i][2])]

\* <B1-Motion>: TableNode.on_drag of the pressed node, then pan_if_space_drag,
\* then _update_edges
B1Motion(p) ==
    /\ win = "open"
    /\ b1
    /\ p # ptr
    /\ ptr' = p
    /\ IF grab = 0
       THEN /\ UNCHANGED <<nodes, drawn, drag_start>>
            /\ err' = "none"
       ELSE IF drag_start[grab] = <<>>
       THEN /\ UNCHANGED <<nodes, drawn, drag_start>>
            /\ err' = "AttributeError"
       ELSE /\ nodes' = on_drag(nodes, grab, p)
            /\ drawn' = canvas_move(drawn, nodes, nodes')
            /\ drag_start' = [drag_start EXCEPT ![grab] = p]
            /\ err' = "none"
    /\ IF pan_mode
       THEN /\ xOrigin' = scan_dragto_x(p)
            /\ yOrigin' = scan_dragto_y(p)
       ELSE UNCHANGED <<xOrigin, yOrigin>>
    /\ lines' = _update_edges(nodes', edges)
    /\ \A i \in 1..Len(nodes) : InReach(nodes'[i])
    /\ PanInReach(xOrigin') /\ PanInReach(yOrigin')
    /\ lastOp' = "motion"
    /\ export_out' = NoExport
    /\ UNCHANGED ctlst
    /\ UNCHANGED <<schema, fk_list, win, edges, zoomst, scan, pan_mode, grab, b1, b2>>
    /\ UNCHANGED appst

\* <ButtonRelease-1>: no handler is bound; the canvas picks its current item anew
ButtonRelease1 ==
    /\ win = "open"
    /\ b1
    /\ b1' = FALSE
    /\ grab' = 0
    /\ ptr' = <<>>
    /\ lastOp' = "release"
    /\ export_out' = NoExport
    /\ UNCHANGED ctlst
    /\ err' = "none"
    /\ UNCHANGED <<diagram, zoomst, viewst, pan_mode, drag_start, b2>>
    /\ UNCHANGED appst

\* <ButtonPress-2> at window point p: pan_mark
ButtonPress2(p) ==
    /\ win = "open"
    /\ ~b1 /\ ~b2
    /\ b2' = TRUE
    /\ ptr' = p
    /\ scan' = scan_mark(p)
    /\ lastOp' = "press2"
    /\ err' = "none"
    /\ export_out' = NoExport
    /\ UNCHANGED <<diagram, zoomst, xOrigin, yOrigin, pan_mode, drag_start, grab, b1, ctlst>>
    /\ UNCHANGED appst

\* <B2-Motion>: pan_drag
B2Motion(p) ==
    /\ win = "open"
    /\ b2
    /\ p # ptr
    /\ ptr' = p
    /\ xOrigin' = scan_dragto_x(p)
    /\ yOrigin' = scan_dragto_y(p)
    /\ PanInReach(xOrigin') /\ PanInReach(yOrigin')
    /\ lastOp' = "motion2"
    /\ err' = "none"
    /\ export_out' = NoExport
    /\ UNCHANGED <<diagram, zoomst, scan, pan_mode, drag_start, grab, b1, b2, ctlst>>
    /\ UNCHANGED appst

\* <ButtonRelease-2>: no handler is bound
ButtonRelease2 ==
    /\ win = "open"
    /\ b2
    /\ b2' = FALSE
    /\ ptr' = <<>>
    /\ lastOp' = "release2"
    /\ err' = "none"
    /\ export_out' = NoExport
    /\ UNCHANGED <<diagram, zoomst, viewst, pan_mode, drag_start, grab, b1, ctlst>>
    /\ UNCHANGED appst

\* <Enter> on the items of node i, with no button held: TableNode.on_hover_in
on_hover_in(i) ==
    /\ win = "open"
    /\ ~b1 /\ ~b2
    /\ \A j \in 1..Len(highlight) : ~highlight[j]
    /\ highlight' = [highlight EXCEPT ![i] = TRUE]
    /\ lastOp' = "hover_in"
    /\ err' = "none"
    /\ export_out' = NoExport
    /\ UNCHANGED <<diagram, zoomst, viewst, ptrst, opens, quality_var, last_session>>
    /\ UNCHANGED appst

\* <Leave> on the items of node i: TableNode.on_hover_out
on_hover_out(i) ==
    /\ win = "open"
    /\ ~b1 /\ ~b2
    /\ highlight[i]
    /\ highlight' = [highlight EXCEPT ![i] = FALSE]
    /\ lastOp' = "hover_out"
    /\ err' = "none"
    /\ export_out' = NoExport
    /\ UNCHANGED <<diagram, zoomst, viewst, ptrst, opens, quality_var, last_session>>
    /\ UNCHANGED appst

\* <KeyPress-space> and <KeyRelease-space>, bound with bind_all
space_down ==
    /\ win = "open"
    /\ ~pan_mode
    /\ pan_mode' = TRUE
    /\ lastOp' = "space"
    /\ export_out' = NoExport
    /\ UNCHANGED ctlst
    /\ err' = "none"
    /\ UNCHANGED <<diagram, zoomst, viewst, drag_start, grab, b1, b2, ptr>>
    /\ UNCHANGED appst

space_up ==
    /\ win = "open"
    /\ pan_mode
    /\ pan_mode' = FALSE
    /\ lastOp' = "space"
    /\ export_out' = NoExport
    /\ UNCHANGED ctlst
    /\ err' = "none"
    /\ UNCHANGED <<diagram, zoomst, viewst, drag_start, grab, b1, b2, ptr>>
    /\ UNCHANGED appst

(***************************************************************************)
(* Zoom                                                                    *)
(***************************************************************************)
\* set_zoom(val): the scale after the slider's variable was written
set_zoom(s, val) ==
    IF val <= 0 THEN s
    ELSE IF val = s THEN s
    ELSE val

\* new_scale = current_scale["s"] * step, not clamped
MutWheelScaleUnclamped(s, delta) ==
    IF delta > 0 THEN (s * WheelNum + WheelDen \div 2) \div WheelDen
    ELSE (s * WheelDen + WheelNum \div 2) \div WheelNum

\* wheel_zoom: max(0.2, min(3.0, current_scale["s"] * step)), step 1.1 or 1/1.1
WheelScale(s, delta) ==
    LET stepped == IF delta > 0 THEN (s * WheelNum + WheelDen \div 2) \div WheelDen
                   ELSE (s * WheelDen + WheelNum \div 2) \div WheelNum
    IN  Max(ScaleMin, Min(ScaleMax, stepped))

\* _apply_scale_at(cx, cy, factor) with factor = new / old: canvas.scale("all",
\* ...) takes every coordinate v of every item to c + (v - c) * factor
\* (to the nearest pixel here)
_apply_scale_at(dr, c, old, new) ==
    [i \in 1..Len(dr) |-> <<c[1] + RoundDiv((dr[i][1] - c[1]) * new, old),
                            c[2] + RoundDiv((dr[i][2] - c[2]) * new, old)>>]

\* canvas.scale("all", ...) rewrites the coordinates of the canvas items and
\* nothing else: it treats TableNode.x and TableNode.y as item coordinates
MutScaleRewritesNodes(ns, c, old, new) ==
    [i \in 1..Len(ns) |-> [ns[i] EXCEPT !.x = c[1] + RoundDiv((@ - c[1]) * new, old),
                                        !.y = c[2] + RoundDiv((@ - c[2]) * new, old)]]

\* the TableNode objects after _apply_scale_at: their x and y are not written
nodes_after_scale(ns, c, old, new) == ns

\* the user moves the slider (ttk.Scale from_=0.4, to=2.4) to val: the trace on
\* zoom_var runs set_zoom, which scales around the canvas centre
SliderMove(val) ==
    /\ win = "open"
    /\ ~b1 /\ ~b2
    /\ val >= SliderFrom /\ val <= SliderTo
    /\ zoom_var' = val
    /\ current_scale' = set_zoom(current_scale, val)
    /\ IF current_scale' = current_scale
       THEN UNCHANGED <<drawn, lines, zooms>>
       ELSE /\ zooms < MaxZooms
            /\ zooms' = zooms + 1
            /\ drawn' = _apply_scale_at(drawn, canvasxy(CanvasCentre),
                                        current_scale, current_scale')
            /\ lines' = _apply_scale_at(lines, canvasxy(CanvasCentre),
                                        current_scale, current_scale')
    /\ nodes' = nodes_after_scale(nodes, canvasxy(CanvasCentre),
                                  current_scale, current_scale')
    /\ lastOp' = "slider"
    /\ export_out' = NoExport
    /\ UNCHANGED ctlst
    /\ err' = "none"
    /\ UNCHANGED <<schema, fk_list, win, edges, viewst, ptrst>>
    /\ UNCHANGED appst

\* the slider's anchor for the wheel's
MutWheelAnchorCentre(p) == canvasxy(CanvasCentre)

\* wheel_zoom: cx, cy = canvas.canvasx(event.x), canvas.canvasy(event.y)
wheel_anchor(p) == canvasxy(p)

\* <Control-MouseWheel>, <Control-Button-4>, <Control-Button-5> at window point p
wheel_zoom(delta, p) ==
    /\ win = "open"
    /\ delta # 0
    /\ zooms < MaxZooms
    /\ zooms' = zooms + 1
    /\ current_scale' = WheelScale(current_scale, delta)
    /\ zoom_var' = WheelScale(current_scale, delta)
    /\ drawn' = _apply_scale_at(drawn, wheel_anchor(p), current_scale, current_scale')
    /\ lines' = _apply_scale_at(lines, wheel_anchor(p), current_scale, current_scale')
    /\ nodes' = nodes_after_scale(nodes, wheel_anchor(p), current_scale, current_scale')
    /\ lastOp' = "wheel"
    /\ export_out' = NoExport
    /\ UNCHANGED ctlst
    /\ err' = "none"
    /\ UNCHANGED <<schema, fk_list, win, edges, viewst, ptrst>>
    /\ UNCHANGED appst

(***************************************************************************)
(* Export                                                                  *)
(***************************************************************************)
quality_values == {"Normal", "High", "Ultra"}

\* the user picks a value in the read-only Quality box
SelectQuality(q) ==
    /\ win \in {"open", "empty"}
    /\ ~b1 /\ ~b2
    /\ q # quality_var
    /\ quality_var' = q
    /\ lastOp' = "quality"
    /\ err' = "none"
    /\ export_out' = NoExport
    /\ UNCHANGED <<diagram, zoomst, viewst, ptrst, opens, highlight, last_session>>
    /\ UNCHANGED appst

\* "Normal" taken for the default
MutScaleFactorNormalIsDefault(q) ==
    IF q = "Ultra" THEN 6 ELSE 4

\* export_canvas: scale_factor = 4; "Normal" gives 2, "Ultra" gives 6
scale_factor(q) ==
    IF q = "Normal" THEN 2 ELSE IF q = "Ultra" THEN 6 ELSE 4

export_formats == {"png", "pdf"}

\* what the file dialog, Tk, Pillow and the disk do to one export:
\*   cancelled          asksaveasfilename returned no name
\*   postscript_failed  canvas.postscript raised
\*   no_pillow          _HAS_PIL is false
\*   no_ghostscript     Image.open or img.resize raised OSError
\*   save_oserror       img.save or os.remove raised OSError
\*   save_failed        img.resize or img.save raised another exception
\*   saved              nothing raised
export_outcomes ==
    {"cancelled", "postscript_failed", "no_pillow", "no_ghostscript",
     "save_oserror", "save_failed", "saved"}

\* an exception of img.save passed over in silence
MutExportResultSilentSaveFailure(fmt, q, outcome) ==
    IF outcome = "saved"
    THEN [msg |-> "showinfo: exported", image |-> fmt, factor |-> scale_factor(q), ps |-> FALSE]
    ELSE NoExport

\* the message box export_canvas ends with, the image it wrote and with which
\* multiplier it resized, and whether the PostScript file stays behind
ExportResult(fmt, q, outcome) ==
    CASE outcome = "cancelled" ->
            NoExport
      [] outcome = "postscript_failed" ->
            [msg |-> "showerror: Export Error", image |-> "none", factor |-> 0, ps |-> FALSE]
      [] outcome = "no_pillow" ->
            [msg |-> "showinfo: Pillow not installed", image |-> "none", factor |-> 0,
             ps |-> TRUE]
      [] outcome = "no_ghostscript" ->
            [msg |-> "showwarning: Ghostscript not found", image |-> "none", factor |-> 0,
             ps |-> TRUE]
      [] outcome = "save_oserror" ->
            [msg |-> "showwarning: Ghostscript not found", image |-> "none",
             factor |-> scale_factor(q), ps |-> TRUE]
      [] outcome = "save_failed" ->
            [msg |-> "showerror: Export Error", image |-> "none",
             factor |-> scale_factor(q), ps |-> TRUE]
      [] outcome = "saved" ->
            [msg |-> "showinfo: exported", image |-> fmt,
             factor |-> scale_factor(q), ps |-> FALSE]

\* the "Export PNG" and "Export PDF" buttons: export_canvas(fmt); the name is
\* unbound in the window of a snapshot without tables, as apply_layout is
export_canvas(fmt, outcome) ==
    /\ win \in {"open", "empty"}
    /\ ~b1 /\ ~b2
    /\ IF win = "empty"
       THEN /\ export_out' = NoExport
            /\ err' = "NameError"
       ELSE /\ export_out' = ExportResult(fmt, quality_var, outcome)
            /\ err' = "none"
    /\ lastOp' = "export"
    /\ UNCHANGED <<diagram, zoomst, viewst, ptrst, ctlst>>
    /\ UNCHANGED appst

(***************************************************************************)
(* Spec: one diagram window on a snapshot of up to MaxNodes tables: the    *)
(* layout button, node dragging and the zoom slider; the window is closed  *)
(* and opened again.                                                       *)
(***************************************************************************)
MaxNodes == 2       \* tables of the snapshot under Spec

SmallFks ==
    << [table |-> TableNames[2], col |-> 2, ref_table |-> TableNames[1], ref_col |-> 1],
       [table |-> TableNames[2], col |-> 1, ref_table |-> AbsentTable, ref_col |-> 1],
       [table |-> TableNames[2], col |-> 2, ref_table |-> TableNames[1], ref_col |-> 1] >>

SliderStops == {SliderTo}

Init ==
    /\ schema \in {s \in Snapshots(MaxNodes) : Len(s) > 0 /\ s[1].name = TableNames[1]}
    /\ fk_list = SmallFks
    /\ NoWindow
    /\ AppStart

Next ==
    \/ ShowInteractiveEer
    \/ Close
    \/ \E mode \in layout_values : ApplyLayout(mode)
    \/ \E p \in PointerPoints : ButtonPress1(p)
    \/ \E p \in PointerPoints : B1Motion(p)
    \/ ButtonRelease1
    \/ \E val \in SliderStops : SliderMove(val)

Spec == Init /\ [][Next]_vars

(***************************************************************************)
(* SpecView: the two-table diagram with the view controls as well: the     *)
(* space key's hand tool pans the canvas while nodes are dragged and laid  *)
(* out.                                                                    *)
(***************************************************************************)
InitView ==
    /\ schema = Snapshot(2, 0, 2)
    /\ fk_list = SmallFks
    /\ NoWindow
    /\ AppStart

NextView ==
    \/ ShowInteractiveEer
    \/ \E mode \in layout_values : ApplyLayout(mode)
    \/ \E p \in PointerPoints : ButtonPress1(p)
    \/ \E p \in PointerPoints : B1Motion(p)
    \/ ButtonRelease1
    \/ \E p \in PointerPoints : ButtonPress2(p)
    \/ \E p \in PointerPoints : B2Motion(p)
    \/ ButtonRelease2
    \/ space_down
    \/ space_up
    \/ \E val \in SliderStops : SliderMove(val)

SpecView == InitView /\ [][NextView]_vars

(***************************************************************************)
(* SpecZoom: the zoom controls alone                                       *)
(***************************************************************************)
ZoomSliderStops == {SliderFrom, ScaleOne, SliderTo}

\* the window point of the wheel events: the corner of the first node as built
WheelPoints == {<<GridX0, GridY0>>}

InitZoom ==
    /\ schema = Snapshot(2, 0, 2)
    /\ fk_list = SmallFks
    /\ NoWindow
    /\ AppStart

NextZoom ==
    \/ ShowInteractiveEer
    \/ \E delta \in {-1, 1}, p \in WheelPoints : wheel_zoom(delta, p)
    \/ \E val \in ZoomSliderStops : SliderMove(val)

SpecZoom == InitZoom /\ [][NextZoom]_vars

(***************************************************************************)
(* SpecExport: the two-table diagram is dragged, laid out, zoomed and      *)
(* exported in each quality, with every outcome of the export.             *)
(***************************************************************************)
InitExport ==
    /\ schema = Snapshot(2, 0, 2)
    /\ fk_list = SmallFks
    /\ NoWindow
    /\ AppStart

NextExport ==
    \/ ShowInteractiveEer
    \/ \E mode \in layout_values : ApplyLayout(mode)
    \/ \E p \in PointerPoints : ButtonPress1(p)
    \/ \E p \in PointerPoints : B1Motion(p)
    \/ ButtonRelease1
    \/ \E val \in SliderStops : SliderMove(val)
    \/ \E q \in quality_values : SelectQuality(q)
    \/ \E fmt \in export_formats, outcome \in export_outcomes : export_canvas(fmt, outcome)

SpecExport == InitExport /\ [][NextExport]_vars

(***************************************************************************)
(* SpecRadial: diagrams of few and of many tables, laid out on the circle  *)
(* and on the grid while button 2 pans the view.                           *)
(***************************************************************************)
RadialCounts == {1, 2, 4, 6, 21}

InitRadial ==
    /\ schema \in {Snapshot(n, 0, 2) : n \in RadialCounts}
    /\ fk_list = <<>>
    /\ NoWindow
    /\ AppStart

NextRadial ==
    \/ ShowInteractiveEer
    \/ \E mode \in {"grid", "radial"} : ApplyLayout(mode)
    \/ \E p \in PointerPoints : ButtonPress2(p)
    \/ \E p \in PointerPoints : B2Motion(p)
    \/ ButtonRelease2

SpecRadial == InitRadial /\ [][NextRadial]_vars

(***************************************************************************)
(* SpecFrame: every kind of handler on a one-table diagram: layout,        *)
(* node dragging, button-2 panning, wheel and slider zoom, hovering and    *)
(* export.                                                                 *)
(***************************************************************************)
\* the window points of the button-1 events, both on the first node as built,
\* and of the button-2 events
FramePoints == {<<100, 100>>, <<100, 140>>}
PanPoints   == {<<100, 100>>, <<300, 100>>}

InitFrame ==
    /\ schema = Snapshot(1, 0, 2)
    /\ fk_list = <<>>
    /\ NoWindow
    /\ AppStart

NextFrame ==
    \/ ShowInteractiveEer
    \/ ApplyLayout("grid")
    \/ \E p \in FramePoints : ButtonPress1(p)
    \/ \E p \in FramePoints : B1Motion(p)
    \/ ButtonRelease1
    \/ \E p \in PanPoints : ButtonPress2(p)
    \/ \E p \in PanPoints : B2Motion(p)
    \/ ButtonRelease2
    \/ zooms < MaxFrameZooms /\ SliderMove(SliderTo)
    \/ zooms < MaxFrameZooms /\ \E p \in WheelPoints : wheel_zoom(1, p)
    \/ \E i \in 1..Len(nodes) : on_hover_in(i)
    \/ \E i \in 1..Len(nodes) : on_hover_out(i)
    \/ export_canvas("png", "saved")

SpecFrame == InitFrame /\ [][NextFrame]_vars

(***************************************************************************)
(* SpecEdges: a three-table diagram with one foreign key into the first    *)
(* table and one between the other two; the first node is dragged, the     *)
(* grid is applied and the canvas is zoomed by the wheel and the slider.   *)
(***************************************************************************)
EdgeFks ==
    << [table |-> TableNames[2], col |-> 2, ref_table |-> TableNames[1], ref_col |-> 1],
       [table |-> TableNames[3], col |-> 2, ref_table |-> TableNames[2], ref_col |-> 1] >>

InitEdges ==
    /\ schema = Snapshot(3, 0, 2)
    /\ fk_list = EdgeFks
    /\ NoWindow
    /\ AppStart

NextEdges ==
    \/ ShowInteractiveEer
    \/ ApplyLayout("grid")
    \/ \E p \in FramePoints : ButtonPress1(p)
    \/ \E p \in FramePoints : B1Motion(p)
    \/ ButtonRelease1
    \/ zooms < MaxFrameZooms /\ \E val \in ZoomSliderStops : SliderMove(val)
    \/ zooms < MaxFrameZooms /\ \E delta \in {-1, 1}, p \in WheelPoints : wheel_zoom(delta, p)

SpecEdges == InitEdges /\ [][NextEdges]_vars

(***************************************************************************)
(* SpecColors: two-table diagrams whose foreign-key lists are longer than  *)
(* the palette, with keys into an absent table among the others.           *)
(***************************************************************************)
PaletteRun == 7

ColorFks ==
    [1..PaletteRun ->
        {[table |-> TableNames[2], col |-> 2, ref_table |-> TableNames[1], ref_col |-> 1],
         [table |-> TableNames[2], col |-> 1, ref_table |-> AbsentTable, ref_col |-> 1]}]

InitColors ==
    /\ schema = Snapshot(2, 0, 2)
    /\ fk_list \in ColorFks
    /\ NoWindow
    /\ AppStart

NextColors ==
    \/ ShowInteractiveEer
    \/ Close
    \/ \E mode \in {"grid", "radial"} : ApplyLayout(mode)

SpecColors == InitColors /\ [][NextColors]_vars

(***************************************************************************)
(* SpecEmpty: the diagram window of a snapshot without tables, and its     *)
(* controls.                                                               *)
(***************************************************************************)
InitEmpty ==
    /\ schema = <<>>
    /\ fk_list \in SeqsUpTo(ForeignKeys, MaxFks)
    /\ NoWindow
    /\ AppStart

NextEmpty ==
    \/ ShowInteractiveEer
    \/ Close
    \/ \E mode \in layout_values : ApplyLayout(mode)
    \/ \E q \in quality_values : SelectQuality(q)
    \/ \E fmt \in export_formats, outcome \in export_outcomes : export_canvas(fmt, outcome)

SpecEmpty == InitEmpty /\ [][NextEmpty]_vars

(***************************************************************************)
(* The editor window: history, queries and result pages.  The handlers of  *)
(* the UI thread run one at a time; a worker thread's steps between two    *)
(* accesses to state shared with the UI thread are one action each.        *)
(***************************************************************************)
eerst == <<diagram, zoomst, viewst, ptrst, ctlst, export_out>>

PAGE_SIZE == 100

MaxThreads == 3     \* worker threads created
MaxHistory == 4     \* entries of the history
MaxPage    == 4     \* the greatest page number typed into the page box

\* the key "display" missing from a history entry
NoKey == "<no key>"

\* _log_history(txt): the line is inserted with its text, the entry appended
\* without a "display" key
log_entry(txt) == [status |-> txt, raw |-> txt, display |-> NoKey]
_log_history_data(txt) == Append(_history_data, log_entry(txt))
_log_history_list(txt) == Append(history_list, txt)

\* _add_history(preview, status, raw): entry["display"] = display, and the line
\* inserted is display
add_entry(status, raw) == [status |-> status, raw |-> raw, display |-> status]
_add_history_data(status, raw) == Append(_history_data, add_entry(status, raw))
_add_history_list(status) == Append(history_list, status)

\* h.get("display", "")
displayed(h) == IF h.display = NoKey THEN "" ELSE h.display

\* a sequence without its element at place idx
RemoveAt(seq, idx) == [i \in 1..(Len(seq) - 1) |-> IF i < idx THEN seq[i] ELSE seq[i + 1]]

\* a handler of the UI thread that calls _log_history(txt) and nothing else of
\* the model: save_query, load_query, run_explain, the AI helpers
LogHistory(txt) ==
    /\ Len(_history_data) < MaxHistory
    /\ _history_data' = _log_history_data(txt)
    /\ history_list' = _log_history_list(txt)
    /\ dialog' = "none"
    /\ lastOp' = "_log_history"
    /\ err' = "none"
    /\ UNCHANGED <<eerst, queryst, pagest>>

\* the "Refresh" button of the history panel
refresh_history ==
    /\ history_list' = [i \in 1..Len(_history_data) |-> displayed(_history_data[i])]
    /\ dialog' = "none"
    /\ lastOp' = "refresh_history"
    /\ err' = "none"
    /\ UNCHANGED <<eerst, queryst, pagest, _history_data>>

\* the "Clear" button of the history panel; answer is the user's to askyesno
clear_history(answer) ==
    /\ IF answer
       THEN /\ _history_data' = <<>>
            /\ history_list' = <<>>
       ELSE UNCHANGED histst
    /\ dialog' = "askyesno: Clear History"
    /\ lastOp' = "clear_history"
    /\ err' = "none"
    /\ UNCHANGED <<eerst, queryst, pagest>>

\* "Delete" of the history's context menu with line idx selected (0: none)
_delete_history_item(idx) ==
    /\ idx \in 0..Len(history_list)
    /\ IF idx = 0
       THEN /\ UNCHANGED histst
            /\ err' = "none"
       ELSE IF idx > Len(_history_data)
       THEN /\ UNCHANGED histst
            /\ err' = "IndexError"
       ELSE /\ _history_data' = RemoveAt(_history_data, idx)
            /\ history_list' = RemoveAt(history_list, idx)
            /\ err' = "none"
    /\ dialog' = "none"
    /\ lastOp' = "_delete_history_item"
    /\ UNCHANGED <<eerst, queryst, pagest>>

(***************************************************************************)
(* Queries                                                                 *)
(***************************************************************************)
is_alive(t) == t # 0 /\ threads[t] # "dead"

Alive == {t \in 1..Len(threads) : threads[t] # "dead"}

\* connect_selected, when pymysql.connect succeeded
connect_selected ==
    /\ ~active_conn
    /\ active_conn' = TRUE
    /\ dialog' = "showinfo: Connected"
    /\ lastOp' = "connect_selected"
    /\ err' = "none"
    /\ UNCHANGED <<eerst, threads, running_thread, running_tid, after_queue, scheduled,
                   pagest, histst>>

\* the "Disconnect" button
disconnect_active ==
    /\ Len(_history_data) < MaxHistory
    /\ active_conn' = FALSE
    /\ _history_data' = _log_history_data("Disconnected")
    /\ history_list' = _log_history_list("Disconnected")
    /\ dialog' = "none"
    /\ lastOp' = "disconnect_active"
    /\ err' = "none"
    /\ UNCHANGED <<eerst, threads, running_thread, running_tid, after_queue, scheduled,
                   pagest>>

\* threading.Thread(target=self._query_worker, ...); t.start();
\* self.running_thread = t; self._log_history(txt)
start_worker(txt) ==
    /\ Len(threads) < MaxThreads
    /\ Len(_history_data) < MaxHistory
    /\ threads' = Append(threads, "started")
    /\ scheduled' = Append(scheduled, <<>>)
    /\ running_thread' = Len(threads) + 1
    /\ _history_data' = _log_history_data(txt)
    /\ history_list' = _log_history_list(txt)
    /\ dialog' = "none"

\* run_query: if self.running_thread and self.running_thread.is_alive()
busy(t) == is_alive(t)

\* the "Run" button, F5: run_query with the editor's text empty or not
run_query(raw) ==
    /\ IF raw = ""
       THEN /\ dialog' = "showwarning: No SQL"
            /\ UNCHANGED <<threads, scheduled, running_thread, histst>>
       ELSE IF ~active_conn
       THEN /\ dialog' = "showwarning: Not connected"
            /\ UNCHANGED <<threads, scheduled, running_thread, histst>>
       ELSE IF busy(running_thread)
       THEN /\ dialog' = "showwarning: Busy"
            /\ UNCHANGED <<threads, scheduled, running_thread, histst>>
       ELSE start_worker("Query started (background)")
    /\ lastOp' = "run_query"
    /\ err' = "none"
    /\ UNCHANGED <<eerst, active_conn, running_tid, after_queue, pagest>>

\* run_query_all: no test of the connection or of a running thread
run_query_all(raw) ==
    /\ IF raw = ""
       THEN /\ dialog' = "toast: No SQL to run"
            /\ UNCHANGED <<threads, scheduled, running_thread, histst>>
       ELSE start_worker("Run All started")
    /\ lastOp' = "run_query_all"
    /\ err' = "none"
    /\ UNCHANGED <<eerst, active_conn, running_tid, after_queue, pagest>>

\* run_query_with_limit: as run_query_all, with LIMIT appended to a select
run_query_with_limit(raw) ==
    /\ IF raw = ""
       THEN /\ dialog' = "toast: No SQL to run"
            /\ UNCHANGED <<threads, scheduled, running_thread, histst>>
       ELSE start_worker("Run with LIMIT")
    /\ lastOp' = "run_query_with_limit"
    /\ err' = "none"
    /\ UNCHANGED <<eerst, active_conn, running_tid, after_queue, pagest>>

\* self.after(0, cb) from thread t
after(q, t, cb, rows) == Append(q, [cb |-> cb, thread |-> t, rows |-> rows])

\* the callbacks that a step taking the queue from q to q2 has passed to
\* self.after, in the order of the calls
passed_to_after(q, q2) == [i \in 1..(Len(q2) - Len(q)) |-> q2[Len(q) + i].cb]

\* an except clause that swallows the exception
MutExceptSilent(q, t) == q

\* except Exception as exc: self.after(0, ... self._on_query_error(...))
except_clause(q, t) == after(q, t, "_on_query_error", 0)

\* _query_worker up to cur.execute: cur = self.active_conn.cursor() raises on
\* None and the except clause schedules _on_query_error; otherwise running_tid
\* is set to thread_id(), or to None if thread_id() raised
worker_begin(t, tid) ==
    /\ t \in 1..Len(threads)
    /\ threads[t] = "started"
    /\ IF ~active_conn
       THEN /\ threads' = [threads EXCEPT ![t] = "finally"]
            /\ after_queue' = except_clause(after_queue, t)
            /\ UNCHANGED running_tid
       ELSE /\ threads' = [threads EXCEPT ![t] = "executing"]
            /\ running_tid' = tid
            /\ UNCHANGED after_queue
    /\ scheduled' = [scheduled EXCEPT ![t] = @ \o passed_to_after(after_queue, after_queue')]
    /\ UNCHANGED <<eerst, active_conn, running_thread, pagest, histst, dialog, lastOp, err>>

\* the rows a select of the model returns
RowCounts == {0, 1, PAGE_SIZE, PAGE_SIZE + 1, 2 * PAGE_SIZE + 50}

\* cur.execute(raw) and what follows it in the try block: the one self.after
\* of the branch taken
worker_execute(t, cb, rows) ==
    /\ t \in 1..Len(threads)
    /\ threads[t] = "executing"
    /\ cb \in {"_on_select_success", "_on_nonselect_success", "_on_query_error"}
    /\ rows \in RowCounts
    /\ cb # "_on_select_success" => rows = 0
    /\ threads' = [threads EXCEPT ![t] = "finally"]
    /\ after_queue' = IF cb = "_on_query_error" THEN except_clause(after_queue, t)
                      ELSE after(after_queue, t, cb, rows)
    /\ scheduled' = [scheduled EXCEPT ![t] = @ \o passed_to_after(after_queue, after_queue')]
    /\ UNCHANGED <<eerst, active_conn, running_thread, running_tid, pagest, histst,
                   dialog, lastOp, err>>

\* the finally clause: cur.close(), self.after(0, _clear_running)
worker_finally(t) ==
    /\ t \in 1..Len(threads)
    /\ threads[t] = "finally"
    /\ threads' = [threads EXCEPT ![t] = "exiting"]
    /\ after_queue' = after(after_queue, t, "_clear_running", 0)
    /\ scheduled' = [scheduled EXCEPT ![t] = @ \o passed_to_after(after_queue, after_queue')]
    /\ UNCHANGED <<eerst, active_conn, running_thread, running_tid, pagest, histst,
                   dialog, lastOp, err>>

\* _query_worker returns and the thread ends
worker_exit(t) ==
    /\ t \in 1..Len(threads)
    /\ threads[t] = "exiting"
    /\ threads' = [threads EXCEPT ![t] = "dead"]
    /\ UNCHANGED <<eerst, active_conn, running_thread, running_tid, after_queue, scheduled,
                   pagest, histst, dialog, lastOp, err>>

\* _on_nonselect_success: self.current_page is not assigned
page_after_nonselect(page) == page

\* the UI thread runs the oldest callback scheduled with after(0, ...)
after_callback ==
    /\ after_queue # <<>>
    /\ LET cb == Head(after_queue)
       IN  /\ cb.cb # "_clear_running" => Len(_history_data) < MaxHistory
           /\ CASE cb.cb = "_on_select_success" ->
                     /\ query_rows' = cb.rows
                     /\ current_page' = 1
                     /\ _history_data' = _add_history_data("row(s) returned", "sql")
                     /\ history_list' = _add_history_list("row(s) returned")
                     /\ dialog' = "none"
                     /\ UNCHANGED <<running_thread, running_tid>>
                [] cb.cb = "_on_nonselect_success" ->
                     /\ query_rows' = 0
                     /\ current_page' = page_after_nonselect(current_page)
                     /\ _history_data' = _add_history_data("row(s) affected", "sql")
                     /\ history_list' = _add_history_list("row(s) affected")
                     /\ dialog' = "none"
                     /\ UNCHANGED <<running_thread, running_tid>>
                [] cb.cb = "_on_query_error" ->
                     /\ _history_data' = _add_history_data("ERROR", "sql")
                     /\ history_list' = _add_history_list("ERROR")
                     /\ dialog' = "showerror: Query Error"
                     /\ UNCHANGED <<running_thread, running_tid, pagest>>
                [] cb.cb = "_clear_running" ->
                     /\ running_thread' = 0
                     /\ running_tid' = "None"
                     /\ dialog' = "none"
                     /\ UNCHANGED <<pagest, histst>>
           /\ lastOp' = cb.cb
    /\ after_queue' = Tail(after_queue)
    /\ err' = "none"
    /\ UNCHANGED <<eerst, active_conn, threads, scheduled>>

\* the "Cancel" button, up to the question it asks
cancel_query ==
    /\ dialog' = IF running_tid = "None" THEN "showinfo: No running query detected"
                 ELSE "askyesno: Cancel Query"
    /\ lastOp' = "cancel_query"
    /\ err' = "none"
    /\ UNCHANGED <<eerst, queryst, pagest, histst>>

(***************************************************************************)
(* Result pages                                                            *)
(***************************************************************************)
next_page ==
    /\ IF current_page * PAGE_SIZE < query_rows
       THEN current_page' = current_page + 1
       ELSE UNCHANGED current_page
    /\ dialog' = "none"
    /\ lastOp' = "next_page"
    /\ err' = "none"
    /\ UNCHANGED <<eerst, queryst, query_rows, histst>>

prev_page ==
    /\ IF current_page > 1
       THEN current_page' = current_page - 1
       ELSE UNCHANGED current_page
    /\ dialog' = "none"
    /\ lastOp' = "prev_page"
    /\ err' = "none"
    /\ UNCHANGED <<eerst, queryst, query_rows, histst>>

\* _jump_to_page with the number val in the page box (a text that is no number
\* returns at once, as val < 1 does)
_jump_to_page(val) ==
    /\ IF val < 1 \/ (val - 1) * PAGE_SIZE >= query_rows
       THEN UNCHANGED current_page
       ELSE current_page' = val
    /\ dialog' = "none"
    /\ lastOp' = "_jump_to_page"
    /\ err' = "none"
    /\ UNCHANGED <<eerst, queryst, query_rows, histst>>

(***************************************************************************)
(* SpecHistory: the history panel, with the handlers that write to it.     *)
(***************************************************************************)
InitApp ==
    /\ schema = <<>>
    /\ fk_list = <<>>
    /\ NoWindow
    /\ AppStart

HistoryTexts == {"Saved query"}

MaxHistoryThreads == 1   \* worker threads created under SpecHistory

NextHistory ==
    \/ \E txt \in HistoryTexts : LogHistory(txt)
    \/ connect_selected
    \/ Len(threads) < MaxHistoryThreads /\ run_query("sql")
    \/ \E t \in 1..Len(threads) : worker_begin(t, "tid")
    \/ \E t \in 1..Len(threads) : worker_execute(t, "_on_query_error", 0)
    \/ \E t \in 1..Len(threads) : worker_finally(t)
    \/ \E t \in 1..Len(threads) : worker_exit(t)
    \/ after_callback
    \/ refresh_history
    \/ \E answer \in BOOLEAN : clear_history(answer)
    \/ \E idx \in 0..Len(history_list) : _delete_history_item(idx)

SpecHistory == InitApp /\ [][NextHistory]_vars

(***************************************************************************)
(* SpecQuery: the three entry points that start a query worker, the        *)
(* worker's steps and the callbacks it schedules on the UI thread.  The    *)
(* server answers thread_id(), and every statement is a non-select or      *)
(* fails.                                                                  *)
(***************************************************************************)
EditorTexts == {"", "sql"}

MaxQueryThreads == 2   \* worker threads created under SpecQuery

WorkerStep(t) ==
    \/ worker_begin(t, "tid")
    \/ \E cb \in {"_on_nonselect_success", "_on_query_error"} : worker_execute(t, cb, 0)
    \/ worker_finally(t)
    \/ worker_exit(t)

NextQuery ==
    \/ connect_selected
    \/ \E raw \in EditorTexts : Len(threads) < MaxQueryThreads /\ run_query(raw)
    \/ \E raw \in EditorTexts : Len(threads) < MaxQueryThreads /\ run_query_all(raw)
    \/ \E raw \in EditorTexts : Len(threads) < MaxQueryThreads /\ run_query_with_limit(raw)
    \/ \E t \in 1..Len(threads) : WorkerStep(t)
    \/ after_callback

SpecQuery == InitApp /\ [][NextQuery]_vars

(***************************************************************************)
(* SpecRun: the "Run" button alone, pressed with a statement in the        *)
(* editor, with the "Connect", "Disconnect" and "Cancel" buttons.          *)
(***************************************************************************)
NextRun ==
    \/ connect_selected
    \/ disconnect_active
    \/ run_query("sql")
    \/ \E t \in 1..Len(threads) : WorkerStep(t)
    \/ after_callback
    \/ cancel_query

SpecRun == InitApp /\ [][NextRun]_vars

(***************************************************************************)
(* SpecPages: selects and non-selects run one after the other over an open *)
(* connection, and the page controls of the result grid.                   *)
(***************************************************************************)
MaxPageThreads == 2   \* worker threads created under SpecPages

NextPages ==
    \/ connect_selected
    \/ Len(threads) < MaxPageThreads /\ run_query("sql")
    \/ \E t \in 1..Len(threads) : worker_begin(t, "tid")
    \/ \E t \in 1..Len(threads), rows \in RowCounts :
           worker_execute(t, "_on_select_success", rows)
    \/ \E t \in 1..Len(threads) : worker_execute(t, "_on_nonselect_success", 0)
    \/ \E t \in 1..Len(threads) : worker_finally(t)
    \/ \E t \in 1..Len(threads) : worker_exit(t)
    \/ after_callback
    \/ next_page
    \/ prev_page
    \/ \E val \in 0..MaxPage : _jump_to_page(val)

SpecPages == InitApp /\ [][NextPages]_vars

(***************************************************************************)
(* SpecWorker: workers started with and without a connection, every        *)
(* outcome of cur.execute.  FairWorker adds what the scheduling gives: a   *)
(* started thread is run by the operating system, and cur.execute returns  *)
(* or raises, so no step of a worker stays enabled for ever without being  *)
(* taken.  Nothing is assumed of the user or of the order in which the     *)
(* event loop serves clicks and callbacks.                                 *)
(***************************************************************************)
MaxWorkerThreads == 1   \* worker threads created under SpecWorker

ResultCallbacks == {"_on_select_success", "_on_nonselect_success", "_on_query_error"}

_query_worker(t) ==
    \/ worker_begin(t, "tid")
    \/ \E cb \in ResultCallbacks :
           worker_execute(t, cb, IF cb = "_on_select_success" THEN 1 ELSE 0)
    \/ worker_finally(t)
    \/ worker_exit(t)

NextWorker ==
    \/ connect_selected
    \/ Len(threads) < MaxWorkerThreads /\ run_query("sql")
    \/ Len(threads) < MaxWorkerThreads /\ run_query_all("sql")
    \/ \E t \in 1..Len(threads) : _query_worker(t)
    \/ after_callback
    \/ cancel_query

SpecWorker == InitApp /\ [][NextWorker]_vars

FairWorker == SpecWorker /\ \A t \in 1..MaxThreads : WF_vars(_query_worker(t))


(***************************************************************************)
(* The claims                                                              *)
(***************************************************************************)
\* what a layout must leave alone: the nodes, their columns and sizes
Topology(ns) ==
    [i \in 1..Len(ns) |->
        [name |-> ns[i].name, cols |-> ns[i].cols,
         width |-> ns[i].width, height |-> ns[i].height]]

\* the bounding boxes of two nodes share an area
Overlap(a, b) ==
    /\ a.x < b.x + b.width  /\ b.x < a.x + a.width
    /\ a.y < b.y + b.height /\ b.y < a.y + a.height

NoOverlap(ns) == \A i, j \in 1..Len(ns) : i # j => ~Overlap(ns[i], ns[j])

\* ceil(sqrt(n)) and the integer nearest to sqrt(n), for n >= 1
CeilSqrt(n)    == CHOOSE c \in 1..n : (c - 1) * (c - 1) < n /\ n <= c * c
NearestSqrt(n) == CHOOSE c \in 1..n : c * c - c < n /\ n <= c * c + c

\* every node i (0-based, in insertion order) is in row i div c, column i mod c
InGridOf(ns, c) ==
    \A i \in 1..Len(ns) :
        /\ ns[i].x = GridX0 + ((i - 1) % c) * GridPitchX
        /\ ns[i].y = GridY0 + ((i - 1) \div c) * GridPitchY

\* C1: building the diagram gives one node per table of the snapshot, in snapshot
\* order, and one edge per foreign key whose two tables are both in the snapshot,
\* in the order of the foreign-key list, duplicates kept; a foreign key naming an
\* absent table adds no edge, removes no node and raises no error.
C1_BuildNodesAndEdges ==
    win # "closed" =>
        LET names == {schema[i].name : i \in 1..Len(schema)}
            kept  == SelectSeq(fk_list,
                               LAMBDA fk : fk.table \in names /\ fk.ref_table \in names)
        IN  /\ Len(nodes) = Len(schema)
            /\ \A i \in 1..Len(nodes) :
                   nodes[i].name = schema[i].name /\ nodes[i].cols = schema[i].cols
            /\ [j \in 1..Len(edges) |-> edges[j].fk] = kept
            /\ \A j \in 1..Len(edges) :
                   edges[j].from = edges[j].fk.table /\ edges[j].to = edges[j].fk.ref_table
            /\ lastOp = "build" => err = "none"

\* a built diagram whose first foreign key names the absent table and was dropped,
\* while the second was kept
C1_Witness ==
    /\ win = "open"
    /\ Len(nodes) >= 2
    /\ Len(fk_list) = 2
    /\ fk_list[1].ref_table = AbsentTable
    /\ Len(edges) = 1

\* C2, as claimed: after the grid layout node i is in row i div c, column i mod c
\* with c = ceil(sqrt(n)); the two tables users, orders are both in row 0.
C2_GridCeilColumns ==
    (win = "open" /\ lastOp = "grid") => InGridOf(nodes, CeilSqrt(Len(nodes)))

\* C2, amended: after the grid layout node i is in row i div c, column i mod c
\* with c = int(sqrt(n) + 0.5), the integer nearest to sqrt(n); the two tables
\* users, orders are both in column 0, users in row 0 and orders in row 1.
C2_GridNearestColumns ==
    (win = "open" /\ lastOp = "grid") =>
        /\ InGridOf(nodes, NearestSqrt(Len(nodes)))
        /\ (Len(nodes) = 2 =>
               /\ Positions(nodes)[1] = <<GridX0, GridY0>>
               /\ Positions(nodes)[2] = <<GridX0, GridY0 + GridPitchY>>)

\* the grid layout was applied to users, orders: one column, two rows
C2_Witness ==
    /\ win = "open"
    /\ lastOp = "grid"
    /\ Len(nodes) = 2
    /\ nodes[1].name = "users" /\ nodes[2].name = "orders"
    /\ nodes[2].x = nodes[1].x /\ nodes[2].y = nodes[1].y + GridPitchY

\* C3: after the grid layout the pitches of the grid are at least the width and
\* the height of every node, whatever the tables' column counts, so that no two
\* nodes' bounding boxes overlap.
C3_GridPitchCoversNodes ==
    (win = "open" /\ lastOp = "grid") =>
        \A i, j \in 1..Len(nodes) :
            (i # j /\ nodes[i].y < nodes[j].y) =>
                /\ GridPitchX >= nodes[i].width
                /\ ~Overlap(nodes[i], nodes[j])

C6_UnknownLayoutFails ==
    (win = "open" /\ lastOp \in layout_values \ {"grid", "radial"}) => err # "none"

\* C7: after the hierarchical layout no two nodes' bounding boxes overlap.
C7_HierarchicalNoOverlap ==
    (win = "open" /\ lastOp = "hierarchical") => NoOverlap(nodes)

C9_LayoutKeepsTopology ==
    [][lastOp' \in layout_values =>
          /\ Topology(nodes') = Topology(nodes)
          /\ edges' = edges]_vars

\* a layout has moved the nodes of a diagram that has edges
C9_Witness ==
    /\ win = "open"
    /\ lastOp \in layout_values
    /\ Len(edges) >= 2
    /\ Positions(nodes) # Positions(BuildNodes(schema))

\* C10: the scale stays within [0.2, 3.0] through every wheel notch and slider
\* move; a notch that would take it below the minimum leaves it at the minimum,
\* one that would take it above the maximum leaves it at the maximum.
C10_ScaleClamped ==
    [][/\ ScaleMin <= current_scale' /\ current_scale' <= ScaleMax
       /\ \A p \in WheelPoints :
              /\ (wheel_zoom(-1, p) /\ current_scale * WheelDen < ScaleMin * WheelNum)
                     => current_scale' = ScaleMin
              /\ (wheel_zoom(1, p) /\ current_scale * WheelNum > ScaleMax * WheelDen)
                     => current_scale' = ScaleMax]_vars

\* a wheel notch has brought the scale to the minimum
C10_Witness ==
    /\ win = "open"
    /\ lastOp = "wheel"
    /\ current_scale = ScaleMin

\* what is drawn at window point p before the step is drawn at p after it
StaysUnder(p) ==
    \A i \in 1..Len(drawn) :
        drawn[i] = <<xOrigin + p[1], yOrigin + p[2]>> =>
            drawn'[i] = <<xOrigin' + p[1], yOrigin' + p[2]>>

\* the step scales the drawing by current_scale' / current_scale around what is
\* at window point p
ScaledAbout(p) ==
    \A i \in 1..Len(drawn) : \A k \in 1..2 :
        LET c == <<xOrigin + p[1], yOrigin + p[2]>>
        IN  drawn'[i][k] = c[k] + RoundDiv((drawn[i][k] - c[k]) * current_scale', current_scale)

BoxesAround(c) ==
    {i \in 1..Len(nodes) :
        /\ nodes[i].x < c[1] /\ c[1] < nodes[i].x + nodes[i].width
        /\ nodes[i].y < c[2] /\ c[2] < nodes[i].y + nodes[i].height}

BoxesTouching(c) ==
    {i \in 1..Len(nodes) :
        /\ nodes[i].x <= c[1] /\ c[1] <= nodes[i].x + nodes[i].width
        /\ nodes[i].y <= c[2] /\ c[2] <= nodes[i].y + nodes[i].height}

\* the event at p moves node i, and no other node, by the pointer's way since the
\* last event
MovesNode(i, p) ==
    /\ nodes'[i].x = nodes[i].x + (p[1] - ptr[1])
    /\ nodes'[i].y = nodes[i].y + (p[2] - ptr[2])
    /\ \A j \in 1..Len(nodes) : j # i => Positions(nodes')[j] = Positions(nodes)[j]

\* the event at p pans the canvas by the pointer's way since the last event
PansCanvas(p) ==
    /\ xOrigin' = xOrigin - (p[1] - ptr[1])
    /\ yOrigin' = yOrigin - (p[2] - ptr[2])

C13_GesturesNeverConcurrent ==
    [][\A p \in PointerPoints :
          B1Motion(p) =>
              ~ (/\ Positions(nodes') # Positions(nodes)
                 /\ <<xOrigin', yOrigin'>> # <<xOrigin, yOrigin>>)]_vars

\* a press has been recorded for a node move: the pressed node has its drag start
MoveRecorded == grab # 0 /\ drag_start[grab] # <<>>

\* a press has been recorded for a pan: the view is where the scan mark and the
\* pointer's way since the mark put it
PanRecorded ==
    /\ xOrigin = scan.xo - (ptr[1] - scan.x)
    /\ yOrigin = scan.yo - (ptr[2] - scan.y)

\* C14: a pointer-motion event that arrives while no gesture is active, no press
\* having been recorded for a move or for a pan, changes no node position and no
\* pan offset and raises no error.
C14_MotionWithoutGestureIsNoOp ==
    [][\A p \in PointerPoints :
          (B1Motion(p) /\ ~MoveRecorded /\ ~PanRecorded) =>
              /\ Positions(nodes') = Positions(nodes)
              /\ <<xOrigin', yOrigin'>> = <<xOrigin, yOrigin>>
              /\ err' = "none"]_vars

\* C15: opening the diagram on a snapshot without tables shows the "No tables
\* found" text, creates no node and no edge and raises no error; a snapshot with
\* tables never gets the empty state.
C15_ZeroTablesEmptyState ==
    win # "closed" =>
        /\ Len(schema) = 0 =>
               /\ win = "empty" /\ nodes = <<>> /\ drawn = <<>> /\ edges = <<>>
               /\ lastOp = "build" => err = "none"
        /\ Len(schema) > 0 => win = "open"

\* the diagram was opened on a snapshot without tables, foreign keys listed or not
C15_Witness ==
    /\ win = "empty"
    /\ lastOp = "build"
    /\ schema = <<>>
    /\ opens = 1

\* the outcomes in which the export did not produce the image
export_failures ==
    {"postscript_failed", "no_pillow", "no_ghostscript", "save_oserror", "save_failed"}

\* the last handler ended with a message box other than the one of success
FailureReported(out) == out.msg \notin {"none", "showinfo: exported"}

\* C16: an export that fails, whatever the failure, ends with a message box
\* telling the user; it writes no image and leaves the nodes, their drawing, the
\* edges, the scale and the view as they were; after it the window is open and
\* takes a layout, a press on the canvas, a zoom and another export.
C16_ExportFailureRecoverable ==
    /\ [][\A fmt \in export_formats, outcome \in export_failures :
             export_canvas(fmt, outcome) =>
                 /\ FailureReported(export_out') /\ export_out'.image = "none"
                 /\ err' = "none"
                 /\ UNCHANGED <<nodes, drawn, edges, current_scale, zoom_var,
                                xOrigin, yOrigin, win, quality_var>>]_vars
    /\ []((lastOp = "export" /\ FailureReported(export_out)) =>
             /\ win = "open"
             /\ ENABLED ApplyLayout("grid")
             /\ ENABLED (\E p \in PointerPoints : ButtonPress1(p))
             /\ ENABLED SliderMove(SliderTo)
             /\ ENABLED export_canvas("png", "saved"))

\* an export of a dragged, zoomed diagram has failed at writing the image
C16_Witness ==
    /\ win = "open"
    /\ lastOp = "export"
    /\ export_out.msg = "showwarning: Ghostscript not found"
    /\ export_out.factor # 0
    /\ current_scale # ScaleOne
    /\ Positions(nodes) # Positions(BuildNodes(schema))

FrameOps == {"wheel", "slider", "press2", "motion2", "release2", "export",
             "hover_in", "hover_out"}

C18_PositionsChangeOnlyByMoveOrLayout ==
    [][/\ lastOp' \in FrameOps => Positions(nodes') = Positions(nodes)
       /\ Positions(nodes') # Positions(nodes) =>
              \/ lastOp' = "motion" /\ b1 /\ grab # 0
              \/ lastOp' \in layout_values
              \/ lastOp' = "build"]_vars

\* the node was dragged away from where it was built, the canvas is zoomed
\* and panned, the pointer is over the node, and the diagram was just exported
C18_Witness ==
    /\ win = "open"
    /\ lastOp = "export"
    /\ Positions(nodes) # Positions(BuildNodes(schema))
    /\ current_scale # ScaleOne
    /\ xOrigin # 0
    /\ highlight[1]
(***************************************************************************)
(* C19: the diagram is rebuilt from scratch on every open: whatever was    *)
(* dragged, laid out or zoomed before the window was closed, after the     *)
(* next open on the same schema every node is at its initial grid position *)
(* and the scale is 1.0; no dragged position survives.                     *)
(***************************************************************************)
InitialGrid(sch) ==
    [i \in 1..Len(sch) |->
        <<GridX0 + ((i - 1) % GridCols(Len(sch))) * GridPitchX,
          GridY0 + ((i - 1) \div GridCols(Len(sch))) * GridPitchY>>]

C19_RebuiltFromScratch ==
    (win = "open" /\ lastOp = "build") =>
        /\ Positions(nodes) = InitialGrid(schema)
        /\ drawn = InitialGrid(schema)
        /\ current_scale = ScaleOne
        /\ zoom_var = ScaleOne
        /\ xOrigin = 0 /\ yOrigin = 0

\* the window was closed with a node away from its grid position and the
\* canvas zoomed, and has just been opened again
C19_Witness ==
    /\ win = "open"
    /\ lastOp = "build"
    /\ opens = 2
    /\ Len(last_session.pos) = Len(schema)
    /\ last_session.pos # InitialGrid(schema)
    /\ last_session.scale # ScaleOne
    /\ Positions(nodes) = InitialGrid(schema)
(***************************************************************************)
(* C20: the radial layout uses the radius clamp(n * 40, 200, 800) for n    *)
(* nodes (200 for n <= 5, 800 for n >= 20, n * 40 in between) and places   *)
(* the i-th node at angle 2 pi i / n around the current viewport centre,   *)
(* so that node 0 lands at (center_x + radius, center_y).  The angles are  *)
(* stated without trigonometry: every node is on the circle, the nodes'    *)
(* centroid is the centre, consecutive nodes are equally far apart, and    *)
(* the nodes go round once, the upper half-turn before the lower one.      *)
(***************************************************************************)
MaxCount == 30

ClaimedRadius(n) == IF n <= 5 THEN 200 ELSE IF n >= 20 THEN 800 ELSE n * 40

Abs(v) == IF v < 0 THEN -v ELSE v

RECURSIVE SumTo(_, _)
SumTo(f, n) == IF n = 0 THEN 0 ELSE f[n] + SumTo(f, n - 1)

Dist2(a, b) == (a.x - b.x) * (a.x - b.x) + (a.y - b.y) * (a.y - b.y)

OnCircle(ns, cx, cy, r) ==
    LET n      == Len(ns)
        centre == [x |-> cx, y |-> cy]
        next(i) == IF i = n THEN 1 ELSE i + 1
    IN  /\ ns[1].x = cx + r /\ ns[1].y = cy
        /\ \A i \in 1..n : Abs(Dist2(ns[i], centre) - r * r) <= 4 * r
        /\ n >= 2 => /\ Abs(SumTo([i \in 1..n |-> ns[i].x - cx], n)) <= n
                     /\ Abs(SumTo([i \in 1..n |-> ns[i].y - cy], n)) <= n
        /\ \A i, j \in 1..n :
               Abs(Dist2(ns[i], ns[next(i)]) - Dist2(ns[j], ns[next(j)])) <= 8 * r
        /\ \A i, j \in 1..n : i < j => ~(ns[i].y < cy - 1 /\ ns[j].y > cy + 1)

C20_RadialCircle ==
    /\ \A n \in 1..MaxCount : Radius(n) = ClaimedRadius(n)
    /\ (win = "open" /\ lastOp = "radial") =>
           OnCircle(nodes, xOrigin + CanvasWidth \div 2, yOrigin + CanvasHeight \div 2,
                    ClaimedRadius(Len(nodes)))

\* twenty-one nodes on the circle of radius 800 around the centre of a panned
\* view
C20_Witness ==
    /\ win = "open"
    /\ lastOp = "radial"
    /\ Len(nodes) = 21
    /\ xOrigin # 0
    /\ nodes[1].x = xOrigin + CanvasWidth \div 2 + RadiusMax
    /\ nodes[6].y > yOrigin + CanvasHeight \div 2

\* six nodes on the circle of radius 240
C20_WitnessBetween ==
    /\ win = "open"
    /\ lastOp = "radial"
    /\ Len(nodes) = 6
    /\ nodes[1].x = xOrigin + CanvasWidth \div 2 + 6 * RadiusPerNode
(***************************************************************************)
(* C21: during a node-move gesture each drag-move event translates the     *)
(* dragged node by exactly the pointer delta since the previous event of   *)
(* the gesture, changes no other node's position, and changes the          *)
(* endpoints of only those edges that touch the dragged node.              *)
(***************************************************************************)
Touches(e, nd) == e.from = nd.name \/ e.to = nd.name

C21_DragMovesNodeAndItsEdges ==
    [][(lastOp' = "motion" /\ grab # 0) =>
          /\ nodes'[grab].x = nodes[grab].x + (ptr'[1] - ptr[1])
          /\ nodes'[grab].y = nodes[grab].y + (ptr'[2] - ptr[2])
          /\ \A i \in 1..Len(nodes) : i # grab => nodes'[i] = nodes[i]
          /\ \A j \in 1..Len(edges) :
                 ~Touches(edges[j], nodes[grab]) =>
                     /\ lines'[2 * j - 1] = lines[2 * j - 1]
                     /\ lines'[2 * j] = lines[2 * j]]_vars
(***************************************************************************)
(* C22: edges hold no position of their own: after build and after every   *)
(* drag-move and layout application, each edge starts at the right edge of *)
(* its source node and ends at the left edge of its target node, and both  *)
(* endpoints are vertically centred on the node's header band              *)
(* (y = node.y + header_height / 2).                                       *)
(***************************************************************************)
EdgesRedrawn == lastOp \in {"build", "motion"} \cup layout_values

EdgeEnds(j, dy) ==
    LET na == NodeOf(nodes, edges[j].from)
        nb == NodeOf(nodes, edges[j].to)
    IN  /\ lines[2 * j - 1] = <<na.x + na.width, na.y + dy>>
        /\ lines[2 * j] = <<nb.x, nb.y + dy>>

C22_EdgesAtHeaderCentre ==
    (win = "open" /\ EdgesRedrawn) =>
        /\ Len(lines) = 2 * Len(edges)
        /\ \A j \in 1..Len(edges) : EdgeEnds(j, HEADER_H \div 2)

\* C22, amended: both endpoints are at the height of the middle of the node's
\* first column row, y = node.y + header_height + row_height / 2
C22_EdgesAtFirstRow ==
    (win = "open" /\ EdgesRedrawn) =>
        /\ Len(lines) = 2 * Len(edges)
        /\ \A j \in 1..Len(edges) : EdgeEnds(j, HEADER_H + ROW_H \div 2)

\* the first node of a zoomed diagram with two edges was dragged away from
\* its grid position, and its edge follows it
C22_Witness ==
    /\ win = "open"
    /\ lastOp = "motion"
    /\ Len(edges) = 2
    /\ current_scale # ScaleOne
    /\ nodes[1].y # GridY0
    /\ lines[2] = <<nodes[1].x, nodes[1].y + HEADER_H + ROW_H \div 2>>
(***************************************************************************)
(* C23: edge colours cycle through the fixed palette by edge index: the    *)
(* k-th edge of the edge list (counting from 0) has colour                 *)
(* palette[k mod palette_size], also when foreign keys earlier in the      *)
(* input were dropped for referencing unknown tables.                      *)
(***************************************************************************)
C23_ColourByEdgeIndex ==
    win = "open" =>
        \A k \in 0..(Len(edges) - 1) : edges[k + 1].color = colors[(k % Len(colors)) + 1]

\* the place in fk_list (from 0) of the foreign key that became edge k (from 0)
FkIndexOf(k) ==
    CHOOSE i \in 0..(Len(fk_list) - 1) :
        /\ FkKept(nodes, fk_list[i + 1])
        /\ Cardinality({h \in 0..(i - 1) : FkKept(nodes, fk_list[h + 1])}) = k

\* C23, amended: the colour goes by the foreign key's index in the input list,
\* the dropped keys counted
C23_ColourByFkIndex ==
    win = "open" =>
        \A k \in 0..(Len(edges) - 1) :
            edges[k + 1].color = colors[(FkIndexOf(k) % Len(colors)) + 1]

\* the first foreign key was dropped, and the last one, made an edge, has the
\* second colour of the palette again
C23_Witness ==
    /\ win = "open"
    /\ ~FkKept(nodes, fk_list[1])
    /\ Len(edges) >= 3
    /\ FkIndexOf(Len(edges) - 1) = Len(colors) + 1
    /\ edges[Len(edges)].color = colors[2]
(***************************************************************************)
(* C24: in every reachable state of the diagram (after any sequence of     *)
(* wheel zoom, slider zoom, node drag and layout application) each node's  *)
(* position is the position at which its box is drawn, so that every       *)
(* edge's drawn endpoints lie on the drawn boxes of its source and target  *)
(* nodes.  Stated for the edges, to within two pixels of rounding.         *)
(***************************************************************************)
IndexOf(name) == CHOOSE i \in 1..Len(nodes) : nodes[i].name = name

OnDrawnBox(i, c) ==
    /\ drawn[i][1] - 2 <= c[1]
    /\ c[1] <= drawn[i][1] + RoundDiv(nodes[i].width * current_scale, ScaleOne) + 2
    /\ drawn[i][2] - 2 <= c[2]
    /\ c[2] <= drawn[i][2] + RoundDiv(nodes[i].height * current_scale, ScaleOne) + 2

C24_EdgesOnDrawnBoxes ==
    win = "open" =>
        \A j \in 1..Len(edges) :
            /\ OnDrawnBox(IndexOf(edges[j].from), lines[2 * j - 1])
            /\ OnDrawnBox(IndexOf(edges[j].to), lines[2 * j])
(***************************************************************************)
(* C25: after the diagram was opened on a schema with zero tables, every   *)
(* control of the diagram window (Apply Layout with any kind, Export PNG,  *)
(* Export PDF) completes as a no-op or a normal export without raising an  *)
(* error.                                                                  *)
(***************************************************************************)
C25_EmptyControlsRaiseNothing ==
    win = "empty" => err = "none"
(***************************************************************************)
(* C26: at most one query worker is executing at any time: a new worker    *)
(* is started only when no earlier worker is still at work.  A worker is   *)
(* counted from its start to the end of cur.execute, which is less than    *)
(* the time it is alive.                                                   *)
(***************************************************************************)
AtWork == {t \in 1..Len(threads) : threads[t] \in {"started", "executing"}}

C26_OneWorkerAtATime == Cardinality(AtWork) <= 1

(***************************************************************************)
(* C27: while a worker executes its query, running_thread refers to it     *)
(* and running_tid holds the server's thread id; running_thread is None    *)
(* only when no worker is at work.                                         *)
(***************************************************************************)
C27_RunningThreadIsTheWorker ==
    \A t \in 1..Len(threads) :
        threads[t] = "executing" => running_thread = t /\ running_tid # "None"

(***************************************************************************)
(* C28: every started worker eventually passes to self.after exactly one   *)
(* result callback (select success, non-select success or error) and then  *)
(* exactly one _clear_running, whether the query succeeds, fails or there  *)
(* is no active connection.  At no time has a worker scheduled anything    *)
(* else, and a worker that has left its finally clause has scheduled both. *)
(***************************************************************************)
OneResultThenClear(s) ==
    /\ Len(s) = 2
    /\ s[1] \in ResultCallbacks
    /\ s[2] = "_clear_running"

ResultThenClearSoFar(s) ==
    /\ Len(s) <= 2
    /\ Len(s) >= 1 => s[1] \in ResultCallbacks
    /\ Len(s) = 2 => s[2] = "_clear_running"

C28_WitnessSelect ==
    \E t \in 1..Len(threads) :
        /\ threads[t] = "dead"
        /\ scheduled[t] = <<"_on_select_success", "_clear_running">>

(***************************************************************************)
(* C29: after query completions and next_page, prev_page and jump-to-page, *)
(* current_page designates an existing page of the current result:         *)
(* 1 <= current_page <= max(1, ceil(len(query_rows) / PAGE_SIZE)).         *)
(***************************************************************************)
PageCount(n) == IF n = 0 THEN 1 ELSE (n + PAGE_SIZE - 1) \div PAGE_SIZE

C29_CurrentPageExists ==
    /\ 1 <= current_page
    /\ current_page <= PageCount(query_rows)

(***************************************************************************)
(* C30: after any sequence of _log_history, _add_history, delete-item,     *)
(* clear_history and refresh_history, the history list shows exactly one   *)
(* line per entry of _history_data, in the same order, so that the         *)
(* selected line's index addresses its own entry; refresh_history changes  *)
(* no displayed line.                                                      *)
(***************************************************************************)
C30_HistoryListShowsData ==
    [][/\ Len(history_list') = Len(_history_data')
       /\ lastOp' = "refresh_history" => history_list' = history_list]_vars

====
